---- MODULE Spec2Model ----
(***************************************************************************)
(* DeCub global consensus ledger (decub-gcl/rust): hashing primitives,     *)
(* Merkle engine, consensus engine and the three request handlers over the *)
(* RwLock-protected ledger.                                                *)
(*                                                                         *)
(* Strings are TLA+ strings and format!("{}{}", ..) is \o.  A SHA-256 hex  *)
(* digest is modelled as an ideal, collision-free digest: the input        *)
(* wrapped in "<" ">".  Like the fixed 64-character width of the real      *)
(* digest, the wrapping makes a concatenation of digests uniquely          *)
(* decodable; the characters "<" and ">" occur in no request string.       *)
(***************************************************************************)
EXTENDS Integers, Sequences, FiniteSets, TLC

\* ---------------------------------------------------------------- bounds
MaxLedger == 2
MaxBatch == 4
MaxValidators == 3
MaxSigs == 3

\* ---------------------------------------------------------------- Option<T>
None == <<>>
Some(x) == <<x>>
is_some(o) == o # None
unwrap(o) == o[1]

\* ---------------------------------------------------------------- inputs
TxIds == {"a", "ab"}
TxTypes == {"", "b"}
Transaction == [tx_id : TxIds, tx_type : TxTypes, origin : {"u"}, payload : {"p"}, sig : {"s"}]
Handlers == {"h1", "h2"}
\* the instants Utc::now() may return, in seconds after 1970-01-01T00:00:00Z (the
\* system clock is not monotonic, so any order of readings is possible)
Now == {0, 1}
SigPool == {"x", "y"}
ValidatorPool == <<"val1", "val2", "val3", "val4", "val5">>

RECURSIVE SeqsUpTo(_, _)
SeqsUpTo(S, n) ==
    IF n = 0 THEN {<<>>}
    ELSE LET shorter == SeqsUpTo(S, n - 1)
         IN shorter \cup {Append(s, x) : s \in {t \in shorter : Len(t) = n - 1}, x \in S}

\* ---------------------------------------------------------------- types.rs
Sha256Hex(data) == "<" \o data \o ">"

to_rfc3339(t) ==
    "1970-01-01T00:00:" \o (IF t < 10 THEN "0" ELSE "") \o ToString(t) \o "+00:00"

hash_transaction(tx) ==
    Sha256Hex(tx.tx_id \o tx.tx_type \o tx.origin \o tx.payload \o tx.sig)

hash_block_with_height(block) ==
    Sha256Hex(ToString(block.header.height) \o block.header.prev_hash
              \o block.header.merkle_root \o block.header.proposer
              \o to_rfc3339(block.header.timestamp))

hash_block(block) ==
    Sha256Hex(block.header.prev_hash \o block.header.merkle_root
              \o block.header.proposer \o to_rfc3339(block.header.timestamp))

\* ---------------------------------------------------------------- merkle.rs
Leaf(tx) == [hash |-> hash_transaction(tx), left |-> None, right |-> None]

Leaves(txs) == [i \in 1..Len(txs) |-> Leaf(txs[i])]

Parent(left, right) ==
    [hash |-> Sha256Hex(left.hash \o right.hash), left |-> Some(left), right |-> Some(right)]

RECURSIVE PairUp_promote(_)
PairUp_promote(nodes) ==
    IF nodes = <<>> THEN <<>>
    ELSE IF Len(nodes) = 1 THEN nodes
    ELSE <<Parent(nodes[1], nodes[2])>> \o PairUp_promote(SubSeq(nodes, 3, Len(nodes)))

\* one pass of `for chunk in nodes.chunks(2)`
RECURSIVE PairUp(_)
PairUp(nodes) ==
    IF nodes = <<>> THEN <<>>
    ELSE LET n     == IF Len(nodes) >= 2 THEN 2 ELSE 1
             chunk == SubSeq(nodes, 1, n)
             left  == chunk[1]
             right == IF Len(chunk) = 2 THEN chunk[2] ELSE chunk[1]
         IN <<Parent(left, right)>> \o PairUp(SubSeq(nodes, n + 1, Len(nodes)))

\* `while nodes.len() > 1 { ... nodes = new_nodes; }`
RECURSIVE ReduceLevels(_)
ReduceLevels(nodes) == IF Len(nodes) > 1 THEN ReduceLevels(PairUp(nodes)) ELSE nodes

build_merkle_tree(txs) ==
    IF txs = <<>> THEN None
    ELSE LET root == ReduceLevels(Leaves(txs))[1]
         IN Some(<<root, root.hash>>)

\* the loop of generate_merkle_proof: (current, idx, proof.hashes) -> proof.hashes
RECURSIVE ProofWalk(_, _, _)
ProofWalk(current, idx, hashes) ==
    IF is_some(current.left) \/ is_some(current.right)
    THEN LET pushed ==
                 IF idx % 2 = 0
                 THEN IF is_some(current.right)
                      THEN Append(hashes, unwrap(current.right).hash) ELSE hashes
                 ELSE IF is_some(current.left)
                      THEN Append(hashes, unwrap(current.left).hash) ELSE hashes
         IN IF idx % 2 = 0
            THEN IF is_some(current.left)
                 THEN ProofWalk(unwrap(current.left), idx \div 2, pushed) ELSE pushed
            ELSE IF is_some(current.right)
                 THEN ProofWalk(unwrap(current.right), idx \div 2, pushed) ELSE pushed
    ELSE hashes

generate_merkle_proof(root, index) ==
    [hashes |-> ProofWalk(root, index, <<>>), index |-> index]

\* verifyProof of the specification (section 4.2); the repository has no
\* implementation of it.
RECURSIVE Recombine(_, _, _)
Recombine(current, hashes, idx) ==
    IF hashes = <<>> THEN current
    ELSE LET sibling == hashes[Len(hashes)]
             up      == IF idx % 2 = 1 THEN Sha256Hex(sibling \o current)
                                       ELSE Sha256Hex(current \o sibling)
         IN Recombine(up, SubSeq(hashes, 1, Len(hashes) - 1), idx \div 2)

verifyProof(tx, proof, expectedRoot) ==
    Recombine(hash_transaction(tx), proof.hashes, proof.index) = expectedRoot

\* ---------------------------------------------------------------- consensus.rs
Validator(id, pub_key) == [id |-> id, pub_key |-> pub_key]

Consensus_new(validators) ==
    [validators |-> validators, threshold |-> (2 * Len(validators)) \div 3]

sign_block_first(c, block) ==
    [i \in 1..(IF Len(c.validators) > 0 THEN 1 ELSE 0) |->
        Sha256Hex(c.validators[i].id \o hash_block(block))]

sign_block(c, block) ==
    [i \in 1..Len(c.validators) |-> Sha256Hex(c.validators[i].id \o hash_block(block))]

verify_quorum_strict(c, signatures) == Len(signatures) > c.threshold

verify_quorum(c, signatures) == Len(signatures) >= c.threshold

propose_block_empty_root(c, height, prev_hash, txs, proposer, now) ==
    [header |-> [height |-> height, prev_hash |-> prev_hash, merkle_root |-> "",
                 proposer |-> proposer, timestamp |-> now],
     txs |-> txs]

propose_block(c, height, prev_hash, txs, proposer, now) ==
    LET built       == build_merkle_tree(txs)
        merkle_root == IF is_some(built) THEN unwrap(built)[2] ELSE ""
    IN [header |-> [height |-> height, prev_hash |-> prev_hash, merkle_root |-> merkle_root,
                    proposer |-> proposer, timestamp |-> now],
        txs |-> txs]

\* ---------------------------------------------------------------- main.rs
MainValidators ==
    <<Validator("val1", "pub1"), Validator("val2", "pub2"), Validator("val3", "pub3")>>

\* ---------------------------------------------------------------- state
VARIABLES
    cons,       \* Arc<Consensus>: [validators, threshold]
    ledger,     \* the Vec<Block> inside the RwLock
    rwlock,     \* the RwLock: [writer : Option<handler>, readers : set of handlers]
    policy,     \* the RwLock's priority policy, which std leaves to the platform
    pc,         \* each handler task's position
    req,        \* each handler task's request arguments
    loc,        \* handle_submit_tx locals: height, prev_hash, block, sigs
    resp,       \* each handler task's reply
    m_txs,      \* Merkle engine: the transaction batch
    m_ran,      \* Merkle engine: build_merkle_tree(m_txs) has returned
    m_built,    \* Merkle engine: Option<(MerkleNode, String)> of build_merkle_tree(m_txs)
    m_proof,    \* Merkle engine: Option<(index, MerkleProof)> last generated
    m_verified, \* Merkle engine: Option<bool> of verifyProof on m_proof
    m_perm,     \* Merkle engine: Option<(batch, root hash)> of a reordered batch
    q_sigs,     \* consensus engine: a signature list handed to verify_quorum
    q_verdict,  \* consensus engine: Option<bool> of verify_quorum(q_sigs)
    b_pair,     \* hashing: two blocks handed to hash_block and sign_block
    b_out       \* hashing: Option<[hashes, sigs]> computed for b_pair

server_vars == <<cons, policy, ledger, rwlock, pc, req, loc, resp>>
merkle_vars == <<m_txs, m_ran, m_built, m_proof, m_verified, m_perm>>
quorum_vars == <<q_sigs, q_verdict>>
hash_vars == <<b_pair, b_out>>
vars == <<cons, policy, ledger, rwlock, pc, req, loc, resp,
          m_txs, m_ran, m_built, m_proof, m_verified, m_perm, q_sigs, q_verdict,
          b_pair, b_out>>

NoReq == [kind |-> "none", tx |-> None, height |-> 0, tx_id |-> ""]
NoLoc == [height |-> 0, prev_hash |-> "", block |-> None, sigs |-> <<>>]
NoResp == [status |-> 0, text |-> "", block |-> None, proof |-> None]

\* the server before its first request, with the handler tasks hs
ServerInitFor(c, hs, p) ==
    /\ cons = c
    /\ policy = p
    /\ ledger = <<>>
    /\ rwlock = [writer |-> None, readers |-> {}]
    /\ pc = [h \in hs |-> "idle"]
    /\ req = [h \in hs |-> NoReq]
    /\ loc = [h \in hs |-> NoLoc]
    /\ resp = [h \in hs |-> NoResp]

\* "admit" allows every behaviour that "writers_first" allows
ServerInit(c) == ServerInitFor(c, Handlers, "admit")

MerkleInit(txs) ==
    /\ m_txs = txs
    /\ m_ran = FALSE
    /\ m_built = None
    /\ m_proof = None
    /\ m_verified = None
    /\ m_perm = None

QuorumInit(sigs) ==
    /\ q_sigs = sigs
    /\ q_verdict = None

HashInit(pair) ==
    /\ b_pair = pair
    /\ b_out = None

\* ---------------------------------------------------------------- Merkle engine
Batches == SeqsUpTo(Transaction, MaxBatch)

RemoveAt(s, i) == SubSeq(s, 1, i - 1) \o SubSeq(s, i + 1, Len(s))

RECURSIVE Reorderings(_)
Reorderings(s) ==
    IF s = <<>> THEN {<<>>}
    ELSE UNION {{<<s[i]>> \o r : r \in Reorderings(RemoveAt(s, i))} : i \in 1..Len(s)}

BuildTree ==
    /\ ~m_ran
    /\ m_ran' = TRUE
    /\ m_built' = build_merkle_tree(m_txs)
    /\ UNCHANGED <<m_txs, m_proof, m_verified, m_perm>>
    /\ UNCHANGED <<server_vars, quorum_vars, hash_vars>>

GenerateProof(k) ==
    /\ is_some(m_built)
    /\ m_proof = None
    /\ m_perm = None
    /\ m_proof' = Some(<<k, generate_merkle_proof(unwrap(m_built)[1], k)>>)
    /\ UNCHANGED <<m_txs, m_ran, m_built, m_verified, m_perm>>
    /\ UNCHANGED <<server_vars, quorum_vars, hash_vars>>

VerifyProof ==
    /\ is_some(m_proof)
    /\ m_verified = None
    /\ m_verified' = Some(verifyProof(m_txs[unwrap(m_proof)[1] + 1], unwrap(m_proof)[2],
                                       unwrap(m_built)[2]))
    /\ UNCHANGED <<m_txs, m_ran, m_built, m_proof, m_perm>>
    /\ UNCHANGED <<server_vars, quorum_vars, hash_vars>>

BuildReordered(txs) ==
    /\ is_some(m_built)
    /\ m_perm = None
    /\ m_proof = None
    /\ m_perm' = Some(<<txs, unwrap(build_merkle_tree(txs))[2]>>)
    /\ UNCHANGED <<m_txs, m_ran, m_built, m_proof, m_verified>>
    /\ UNCHANGED <<server_vars, quorum_vars, hash_vars>>

MerkleNext ==
    \/ BuildTree
    \/ \E k \in 0..(Len(m_txs) - 1) : GenerateProof(k)
    \/ VerifyProof
    \/ \E txs \in Reorderings(m_txs) : BuildReordered(txs)

SpecMerkle ==
    /\ ServerInit(Consensus_new(MainValidators))
    /\ QuorumInit(<<>>)
    /\ HashInit(<<>>)
    /\ \E txs \in Batches : MerkleInit(txs)
    /\ [][MerkleNext]_vars

\* ---------------------------------------------------------------- api.rs
can_write_unlocked(l) == TRUE

\* RwLock::write() returns once no guard of either kind is held
can_write(l) == l.writer = None /\ l.readers = {}

\* RwLock::read() returns once no write guard is held and, where the platform's
\* lock puts writers first, no writer is blocked in write()
can_read(l) ==
    /\ l.writer = None
    /\ policy = "writers_first" => \A g \in DOMAIN pc : pc[g] # "submit_lock"

drop_write_leak(l) == l

\* the RwLockWriteGuard goes out of scope
drop_write(l) == [l EXCEPT !.writer = None]

\* handler h's RwLockReadGuard goes out of scope
drop_read(l, h) == [l EXCEPT !.readers = @ \ {h}]

InSubmit(h) == pc[h] \in {"submit_lock", "submit_tail", "submit_propose", "submit_sign", "submit_commit"}

next_height_len(l) == Len(l)

\* api.rs:59
next_height(l) == Len(l) + 1

tail_hash_late(l, height) == IF height > 2 THEN hash_block(l[height - 1]) ELSE ""

\* api.rs:60-64; the Vec index height - 2 is position height - 1 of the sequence
tail_hash(l, height) == IF height > 1 THEN hash_block(l[height - 1]) ELSE ""

submitted_text(height) == "Transaction submitted, block " \o ToString(height) \o " created"

\* POST /gcl/tx reaches handle_submit_tx
SubmitRequest(h, tx) ==
    /\ pc[h] = "idle"
    /\ Len(ledger) + Cardinality({g \in DOMAIN pc : InSubmit(g)}) < MaxLedger
    /\ pc' = [pc EXCEPT ![h] = "submit_lock"]
    /\ req' = [req EXCEPT ![h] = [NoReq EXCEPT !.kind = "submit", !.tx = Some(tx)]]
    /\ UNCHANGED <<cons, policy, ledger, rwlock, loc, resp>>
    /\ UNCHANGED <<merkle_vars, quorum_vars, hash_vars>>

\* api.rs:58
SubmitLock(h) ==
    /\ pc[h] = "submit_lock"
    /\ can_write(rwlock)
    /\ rwlock' = [rwlock EXCEPT !.writer = Some(h)]
    /\ pc' = [pc EXCEPT ![h] = "submit_tail"]
    /\ UNCHANGED <<cons, policy, ledger, req, loc, resp>>
    /\ UNCHANGED <<merkle_vars, quorum_vars, hash_vars>>

\* api.rs:59-64
SubmitTail(h) ==
    /\ pc[h] = "submit_tail"
    /\ LET height == next_height(ledger)
       IN loc' = [loc EXCEPT ![h] = [NoLoc EXCEPT !.height = height,
                                                  !.prev_hash = tail_hash(ledger, height)]]
    /\ pc' = [pc EXCEPT ![h] = "submit_propose"]
    /\ UNCHANGED <<cons, policy, ledger, rwlock, req, resp>>
    /\ UNCHANGED <<merkle_vars, quorum_vars, hash_vars>>

\* api.rs:65; now is the value Utc::now() returns inside propose_block
SubmitPropose(h, now) ==
    /\ pc[h] = "submit_propose"
    /\ loc' = [loc EXCEPT ![h].block =
                  Some(propose_block(cons, loc[h].height, loc[h].prev_hash,
                                     <<unwrap(req[h].tx)>>, "validator1", now))]
    /\ pc' = [pc EXCEPT ![h] = "submit_sign"]
    /\ UNCHANGED <<cons, policy, ledger, rwlock, req, resp>>
    /\ UNCHANGED <<merkle_vars, quorum_vars, hash_vars>>

\* api.rs:66
SubmitSign(h) ==
    /\ pc[h] = "submit_sign"
    /\ loc' = [loc EXCEPT ![h].sigs = sign_block(cons, unwrap(loc[h].block))]
    /\ pc' = [pc EXCEPT ![h] = "submit_commit"]
    /\ UNCHANGED <<cons, policy, ledger, rwlock, req, resp>>
    /\ UNCHANGED <<merkle_vars, quorum_vars, hash_vars>>

commit_ledger_front(l, c, block, sigs) == IF verify_quorum(c, sigs) THEN <<block>> \o l ELSE l

\* the ledger after api.rs:67-68
commit_ledger(l, c, block, sigs) == IF verify_quorum(c, sigs) THEN Append(l, block) ELSE l

\* the reply of api.rs:67-78
commit_reply(c, height, sigs) ==
    IF verify_quorum(c, sigs)
    THEN [NoResp EXCEPT !.status = 200, !.text = submitted_text(height)]
    ELSE [NoResp EXCEPT !.status = 500, !.text = "Consensus failed"]

\* api.rs:67-79; the write guard is dropped on return
SubmitCommit(h) ==
    /\ pc[h] = "submit_commit"
    /\ ledger' = commit_ledger(ledger, cons, unwrap(loc[h].block), loc[h].sigs)
    /\ resp' = [resp EXCEPT ![h] = commit_reply(cons, loc[h].height, loc[h].sigs)]
    /\ rwlock' = drop_write(rwlock)
    /\ loc' = [loc EXCEPT ![h] = NoLoc]
    /\ pc' = [pc EXCEPT ![h] = "replied"]
    /\ UNCHANGED <<cons, policy, req>>
    /\ UNCHANGED <<merkle_vars, quorum_vars, hash_vars>>

\* GET /gcl/block/{u64} reaches handle_get_block
GetBlockRequest(h, height) ==
    /\ pc[h] = "idle"
    /\ pc' = [pc EXCEPT ![h] = "get_block_lock"]
    /\ req' = [req EXCEPT ![h] = [NoReq EXCEPT !.kind = "get_block", !.height = height]]
    /\ UNCHANGED <<cons, policy, ledger, rwlock, loc, resp>>
    /\ UNCHANGED <<merkle_vars, quorum_vars, hash_vars>>

\* api.rs:82
GetBlockLock(h) ==
    /\ pc[h] = "get_block_lock"
    /\ can_read(rwlock)
    /\ rwlock' = [rwlock EXCEPT !.readers = @ \cup {h}]
    /\ pc' = [pc EXCEPT ![h] = "get_block_body"]
    /\ UNCHANGED <<cons, policy, ledger, req, loc, resp>>
    /\ UNCHANGED <<merkle_vars, quorum_vars, hash_vars>>

get_block_reply_short(l, height) ==
    IF height < 1 \/ height >= Len(l)
    THEN [NoResp EXCEPT !.status = 404, !.text = "Block not found"]
    ELSE [NoResp EXCEPT !.status = 200, !.block = Some(l[height])]

\* the reply of api.rs:83-90
get_block_reply(l, height) ==
    IF height < 1 \/ height > Len(l)
    THEN [NoResp EXCEPT !.status = 404, !.text = "Block not found"]
    ELSE [NoResp EXCEPT !.status = 200, !.block = Some(l[height])]

\* api.rs:83-91; the read guard is dropped on return
GetBlockBody(h) ==
    /\ pc[h] = "get_block_body"
    /\ resp' = [resp EXCEPT ![h] = get_block_reply(ledger, req[h].height)]
    /\ rwlock' = drop_read(rwlock, h)
    /\ pc' = [pc EXCEPT ![h] = "replied"]
    /\ UNCHANGED <<cons, policy, ledger, req, loc>>
    /\ UNCHANGED <<merkle_vars, quorum_vars, hash_vars>>

\* GET /gcl/proof/{String} reaches handle_get_proof
GetProofRequest(h, tx_id) ==
    /\ pc[h] = "idle"
    /\ pc' = [pc EXCEPT ![h] = "get_proof_lock"]
    /\ req' = [req EXCEPT ![h] = [NoReq EXCEPT !.kind = "get_proof", !.tx_id = tx_id]]
    /\ UNCHANGED <<cons, policy, ledger, rwlock, loc, resp>>
    /\ UNCHANGED <<merkle_vars, quorum_vars, hash_vars>>

\* api.rs:94
GetProofLock(h) ==
    /\ pc[h] = "get_proof_lock"
    /\ can_read(rwlock)
    /\ rwlock' = [rwlock EXCEPT !.readers = @ \cup {h}]
    /\ pc' = [pc EXCEPT ![h] = "get_proof_body"]
    /\ UNCHANGED <<cons, policy, ledger, req, loc, resp>>
    /\ UNCHANGED <<merkle_vars, quorum_vars, hash_vars>>

\* api.rs:95-104: the nested scan from block b (1-based), transaction i (0-based);
\* a match whose block yields no tree does not return and the scan goes on
RECURSIVE scan_proof(_, _, _, _)
scan_proof(l, tx_id, b, i) ==
    IF b > Len(l) THEN None
    ELSE IF i >= Len(l[b].txs) THEN scan_proof(l, tx_id, b + 1, 0)
    ELSE IF l[b].txs[i + 1].tx_id = tx_id /\ is_some(build_merkle_tree(l[b].txs))
         THEN Some(generate_merkle_proof(unwrap(build_merkle_tree(l[b].txs))[1], i))
         ELSE scan_proof(l, tx_id, b, i + 1)

get_proof_reply_skip(l, tx_id) ==
    LET found == scan_proof(l, tx_id, 2, 0)
    IN IF is_some(found)
       THEN [NoResp EXCEPT !.status = 200, !.proof = found]
       ELSE [NoResp EXCEPT !.status = 404, !.text = "Transaction not found"]

\* the reply of api.rs:95-108
get_proof_reply(l, tx_id) ==
    LET found == scan_proof(l, tx_id, 1, 0)
    IN IF is_some(found)
       THEN [NoResp EXCEPT !.status = 200, !.proof = found]
       ELSE [NoResp EXCEPT !.status = 404, !.text = "Transaction not found"]

\* api.rs:95-109; the read guard is dropped on return
GetProofBody(h) ==
    /\ pc[h] = "get_proof_body"
    /\ resp' = [resp EXCEPT ![h] = get_proof_reply(ledger, req[h].tx_id)]
    /\ rwlock' = drop_read(rwlock, h)
    /\ pc' = [pc EXCEPT ![h] = "replied"]
    /\ UNCHANGED <<cons, policy, ledger, req, loc>>
    /\ UNCHANGED <<merkle_vars, quorum_vars, hash_vars>>

\* the reply is sent and the handler task ends
Reply(h) ==
    /\ pc[h] = "replied"
    /\ pc' = [pc EXCEPT ![h] = "idle"]
    /\ req' = [req EXCEPT ![h] = NoReq]
    /\ resp' = [resp EXCEPT ![h] = NoResp]
    /\ UNCHANGED <<cons, policy, ledger, rwlock, loc>>
    /\ UNCHANGED <<merkle_vars, quorum_vars, hash_vars>>

BlockHeights == 0..(MaxLedger + 1)

Next ==
    \/ \E h \in Handlers, tx \in Transaction : SubmitRequest(h, tx)
    \/ \E h \in Handlers : SubmitLock(h)
    \/ \E h \in Handlers : SubmitTail(h)
    \/ \E h \in Handlers, now \in Now : SubmitPropose(h, now)
    \/ \E h \in Handlers : SubmitSign(h)
    \/ \E h \in Handlers : SubmitCommit(h)
    \/ \E h \in Handlers, height \in BlockHeights : GetBlockRequest(h, height)
    \/ \E h \in Handlers : GetBlockLock(h)
    \/ \E h \in Handlers : GetBlockBody(h)
    \/ \E h \in Handlers, tx_id \in TxIds : GetProofRequest(h, tx_id)
    \/ \E h \in Handlers : GetProofLock(h)
    \/ \E h \in Handlers : GetProofBody(h)
    \/ \E h \in Handlers : Reply(h)

Init ==
    /\ ServerInit(Consensus_new(MainValidators))
    /\ MerkleInit(<<>>)
    /\ QuorumInit(<<>>)
    /\ HashInit(<<>>)

Spec == Init /\ [][Next]_vars

\* the submit workflow alone, for any validator set handed to Consensus::new
ValidatorLists ==
    {[i \in 1..n |-> Validator(ValidatorPool[i], "pub")] : n \in 0..MaxValidators}

SubmitNext ==
    \/ \E h \in Handlers, tx \in Transaction : SubmitRequest(h, tx)
    \/ \E h \in Handlers : SubmitLock(h)
    \/ \E h \in Handlers : SubmitTail(h)
    \/ \E h \in Handlers, now \in Now : SubmitPropose(h, now)
    \/ \E h \in Handlers : SubmitSign(h)
    \/ \E h \in Handlers : SubmitCommit(h)
    \/ \E h \in Handlers : Reply(h)

SpecSubmit ==
    /\ \E vs \in ValidatorLists : ServerInit(Consensus_new(vs))
    /\ MerkleInit(<<>>)
    /\ QuorumInit(<<>>)
    /\ HashInit(<<>>)
    /\ [][SubmitNext]_vars

\* ---------------------------------------------------------------- quorum check
VerifyQuorum ==
    /\ q_verdict = None
    /\ q_verdict' = Some(verify_quorum(cons, q_sigs))
    /\ UNCHANGED q_sigs
    /\ UNCHANGED <<server_vars, merkle_vars, hash_vars>>

SpecQuorum ==
    /\ \E vs \in ValidatorLists : ServerInit(Consensus_new(vs))
    /\ MerkleInit(<<>>)
    /\ \E sigs \in SeqsUpTo(SigPool, MaxSigs) : QuorumInit(sigs)
    /\ HashInit(<<>>)
    /\ [][VerifyQuorum]_vars

\* ---------------------------------------------------------------- scheduling
\* three handler tasks, so that two readers can overlap while a writer waits; one
\* value per request argument
LiveHandlers == {"h1", "h2", "h3"}
LiveTx == [tx_id |-> "a", tx_type |-> "", origin |-> "u", payload |-> "p", sig |-> "s"]

\* handler h returns from RwLock::write() or RwLock::read()
LockStep(h) == SubmitLock(h) \/ GetBlockLock(h) \/ GetProofLock(h)

\* handler h runs on while it holds its guard
BodyStep(h) ==
    \/ SubmitTail(h)
    \/ SubmitPropose(h, 0)
    \/ SubmitSign(h)
    \/ SubmitCommit(h)
    \/ GetBlockBody(h)
    \/ GetProofBody(h)

LiveNext ==
    \/ \E h \in LiveHandlers : SubmitRequest(h, LiveTx)
    \/ \E h \in LiveHandlers : GetBlockRequest(h, 1)
    \/ \E h \in LiveHandlers : GetProofRequest(h, "a")
    \/ \E h \in LiveHandlers : LockStep(h)
    \/ \E h \in LiveHandlers : BodyStep(h)
    \/ \E h \in LiveHandlers : Reply(h)

\* a running handler always takes its next step, and a handler blocked on the lock
\* gets it if the lock keeps becoming available to it
FairSpec ==
    /\ \E p \in {"admit", "writers_first"} :
          ServerInitFor(Consensus_new(MainValidators), LiveHandlers, p)
    /\ MerkleInit(<<>>)
    /\ QuorumInit(<<>>)
    /\ HashInit(<<>>)
    /\ [][LiveNext]_vars
    /\ \A h \in LiveHandlers : SF_vars(LockStep(h)) /\ WF_vars(BodyStep(h))

\* ---------------------------------------------------------------- header hash
Blocks ==
    [header : [height : 1..MaxLedger, prev_hash : {"", Sha256Hex("p")},
               merkle_root : {"", Sha256Hex("aups")}, proposer : {"validator1", "val1"},
               timestamp : Now],
     txs : {<<>>, <<[tx_id |-> "a", tx_type |-> "", origin |-> "u", payload |-> "p", sig |-> "s"]>>}]

\* hash_block and sign_block applied to both blocks of the pair
HashBlocks ==
    /\ b_out = None
    /\ b_out' = Some([hashes |-> <<hash_block(b_pair[1]), hash_block(b_pair[2])>>,
                      sigs   |-> <<sign_block(cons, b_pair[1]), sign_block(cons, b_pair[2])>>])
    /\ UNCHANGED b_pair
    /\ UNCHANGED <<server_vars, merkle_vars, quorum_vars>>

SpecHash ==
    /\ ServerInit(Consensus_new(MainValidators))
    /\ MerkleInit(<<>>)
    /\ QuorumInit(<<>>)
    /\ \E a, b \in Blocks : HashInit(<<a, b>>)
    /\ [][HashBlocks]_vars

\* ---------------------------------------------------------------- claims
IsPrefix(s, t) == Len(s) <= Len(t) /\ SubSeq(t, 1, Len(s)) = s

Finishes(h, at) == pc[h] = at /\ pc'[h] = "replied"

\* C1: chain linkage.  The first block's prev_hash is the empty string and every
\* later block's prev_hash is hash_block of the block right before it.
C1_ChainLinkage ==
    /\ Len(ledger) >= 1 => ledger[1].header.prev_hash = ""
    /\ \A i \in 2..Len(ledger) : ledger[i].header.prev_hash = hash_block(ledger[i - 1])

C1_Witness ==
    /\ Len(ledger) >= 2
    /\ ledger[1] # ledger[2]
    /\ ledger[2].header.prev_hash = hash_block(ledger[1])

\* C2: sequential height.  The block at 1-based position i has height i (the
\* 0-based position plus one), so heights are 1..Len(ledger).
C2_SequentialHeight ==
    \A i \in 1..Len(ledger) : ledger[i].header.height = i

C2_Witness ==
    /\ Len(ledger) >= 2
    /\ ledger[1].header.height = 1
    /\ ledger[2].header.height = 2

\* C3: Merkle commitment.  Every stored block's merkle_root is the root hash that
\* build_merkle_tree yields over the block's stored transactions ("" for none).
C3_MerkleCommitment ==
    \A i \in 1..Len(ledger) :
        LET built == build_merkle_tree(ledger[i].txs)
        IN ledger[i].header.merkle_root = (IF is_some(built) THEN unwrap(built)[2] ELSE "")

C3_Witness ==
    /\ Len(ledger) >= 2
    /\ ledger[1].txs # ledger[2].txs
    /\ ledger[2].header.merkle_root = hash_transaction(ledger[2].txs[1])

\* C4: append-only.  Every step leaves the old ledger a prefix of the new one and
\* adds at most one block; only a submit's commit step changes the ledger, and
\* get-block and get-proof steps never do.
C4_AppendOnly ==
    [][/\ IsPrefix(ledger, ledger')
       /\ Len(ledger') <= Len(ledger) + 1
       /\ ledger' # ledger => \E h \in Handlers : Finishes(h, "submit_commit")
       /\ \A h \in Handlers :
            pc[h] \in {"get_block_lock", "get_block_body", "get_proof_lock", "get_proof_body"}
            /\ pc'[h] # pc[h] => ledger' = ledger]_vars

C4_Witness ==
    /\ Len(ledger) = 2
    /\ \E h \in Handlers : pc[h] = "replied" /\ req[h].kind = "get_proof"
    /\ \E h \in Handlers : pc[h] = "replied" /\ req[h].kind = "get_block"

\* C5: quorum-gated append.  A submit appends its block and replies success with
\* the new height (the ledger length after the append and the appended block's
\* height) iff the signature count reaches the threshold; otherwise it replies
\* failure and leaves the ledger as it was.
C5_QuorumGatedAppend ==
    [][\A h \in Handlers : Finishes(h, "submit_commit") =>
          LET quorum == Len(loc[h].sigs) >= cons.threshold
              block  == unwrap(loc[h].block)
          IN /\ quorum <=> ledger' = Append(ledger, block)
             /\ quorum <=> resp'[h].status = 200
             /\ quorum => /\ resp'[h].text = submitted_text(Len(ledger'))
                          /\ block.header.height = Len(ledger')
             /\ ~quorum => /\ ledger' = ledger
                           /\ resp'[h].status = 500
                           /\ resp'[h].text = "Consensus failed"]_vars

C5_Witness ==
    \E h \in Handlers :
        /\ pc[h] = "replied"
        /\ req[h].kind = "submit"
        /\ resp[h].status = 200
        /\ Len(cons.validators) = 0
        /\ Len(ledger) = 2
        /\ resp[h].text = "Transaction submitted, block 2 created"

C7_ProofRoundTrip ==
    is_some(m_verified) => unwrap(m_verified)

\* C8: order sensitivity.  Reordering a batch of pairwise distinct transactions
\* into a different order changes the root hash.
PairwiseDistinct(txs) == \A i, j \in 1..Len(txs) : i # j => txs[i] # txs[j]

C8_ReorderChangesRoot ==
    (/\ is_some(m_perm)
     /\ PairwiseDistinct(m_txs)
     /\ unwrap(m_perm)[1] # m_txs) => unwrap(m_perm)[2] # unwrap(m_built)[2]

\* C9: fetch block by height.  get-block replies not-found iff the height is below
\* 1 or above the ledger length, and otherwise replies the block at that 1-based
\* position, whose height is the requested one.
C9_GetBlock ==
    [][\A h \in Handlers : Finishes(h, "get_block_body") =>
          LET height == req[h].height
              absent == height < 1 \/ height > Len(ledger)
          IN /\ resp'[h].status \in {200, 404}
             /\ absent <=> resp'[h].status = 404
             /\ absent => resp'[h].block = None
             /\ ~absent => /\ resp'[h].block = Some(ledger[height])
                           /\ ledger[height].header.height = height]_vars

C9_Witness ==
    \E h \in Handlers :
        /\ pc[h] = "replied"
        /\ req[h].kind = "get_block"
        /\ req[h].height = 2
        /\ resp[h].status = 200
        /\ unwrap(resp[h].block).header.height = 2

\* C10: find transaction.  get-proof replies not-found iff no stored transaction
\* has the id; otherwise it replies the proof for the first match in scan order,
\* whose index is the match's position within its block.
Matches(l, tx_id) ==
    {m \in (1..Len(l)) \X (0..MaxBatch) : m[2] < Len(l[m[1]].txs) /\ l[m[1]].txs[m[2] + 1].tx_id = tx_id}

FirstMatch(l, tx_id) ==
    CHOOSE m \in Matches(l, tx_id) :
        \A n \in Matches(l, tx_id) : m[1] < n[1] \/ (m[1] = n[1] /\ m[2] <= n[2])

C10_GetProof ==
    [][\A h \in Handlers : Finishes(h, "get_proof_body") =>
          LET tx_id == req[h].tx_id
              found == Matches(ledger, tx_id) # {}
          IN /\ ~found <=> resp'[h].status = 404
             /\ found =>
                  LET m    == FirstMatch(ledger, tx_id)
                      root == unwrap(build_merkle_tree(ledger[m[1]].txs))[1]
                  IN /\ resp'[h].status = 200
                     /\ resp'[h].proof = Some(generate_merkle_proof(root, m[2]))
                     /\ unwrap(resp'[h].proof).index = m[2]]_vars

C10_Witness ==
    \E h \in Handlers :
        /\ pc[h] = "replied"
        /\ req[h].kind = "get_proof"
        /\ resp[h].status = 200
        /\ Len(ledger) = 2
        /\ ledger[1].txs[1].tx_id # req[h].tx_id
        /\ ledger[2].txs[1].tx_id = req[h].tx_id

\* C11: proof response content.  Whenever get-proof finds the transaction, its reply
\* carries the MerkleProof (hashes and index) and the merkle root of the block
\* that owns the transaction, equal to that block's header.merkle_root.
C11_ProofReplyHasRoot ==
    [][\A h \in Handlers :
          (Finishes(h, "get_proof_body") /\ Matches(ledger, req[h].tx_id) # {}) =>
             LET owner == ledger[FirstMatch(ledger, req[h].tx_id)[1]]
                 body  == unwrap(resp'[h].proof)
             IN /\ is_some(resp'[h].proof)
                /\ {"hashes", "index"} \subseteq DOMAIN body
                /\ "merkle_root" \in DOMAIN body
                /\ body.merkle_root = owner.header.merkle_root]_vars

\* C12: single-writer exclusion.  The write guard is held by exactly the handler
\* that is between acquiring it and its reply, at most one handler is there at a
\* time, no read guard is held meanwhile, the read guards are held by exactly the
\* handlers inside a read body, and the height and prev_hash a submit has computed
\* differ from those of every other submit, in flight or already appended.
InWrite(h) == pc[h] \in {"submit_tail", "submit_propose", "submit_sign", "submit_commit"}

InRead(h) == pc[h] \in {"get_block_body", "get_proof_body"}

C12_SingleWriter ==
    /\ Cardinality({h \in Handlers : InWrite(h)}) <= 1
    /\ \A h \in Handlers : InWrite(h) <=> rwlock.writer = Some(h)
    /\ rwlock.readers = {h \in Handlers : InRead(h)}
    /\ is_some(rwlock.writer) => rwlock.readers = {}
    /\ \A h \in Handlers : loc[h] # NoLoc =>
          /\ InWrite(h) /\ pc[h] # "submit_tail"
          /\ loc[h].height = Len(ledger) + 1
          /\ \A g \in Handlers \ {h} : loc[g] = NoLoc
          /\ \A i \in 1..Len(ledger) :
                /\ ledger[i].header.height # loc[h].height
                /\ ledger[i].header.prev_hash # loc[h].prev_hash
    /\ \A i, j \in 1..Len(ledger) : i # j =>
          /\ ledger[i].header.height # ledger[j].header.height
          /\ ledger[i].header.prev_hash # ledger[j].header.prev_hash

C12_Witness ==
    \E h, g \in Handlers :
        /\ pc[h] = "submit_commit"
        /\ pc[g] = "submit_lock"
        /\ loc[h].height = Len(ledger) + 1
        /\ loc[g] = NoLoc

\* C13: Merkle construction.  build_merkle_tree returns no tree iff the batch is
\* empty; otherwise its root hash is that of the reference construction: one leaf
\* hash per transaction in input order, levels paired left to right with parent
\* hash H(left || right), an odd level's last hash paired with itself, until one
\* hash remains (a single transaction's root is its leaf hash).
LeafHashes(txs) == [i \in 1..Len(txs) |-> hash_transaction(txs[i])]

RefLevel(hs) ==
    [i \in 1..((Len(hs) + 1) \div 2) |->
        Sha256Hex(hs[2 * i - 1] \o (IF 2 * i <= Len(hs) THEN hs[2 * i] ELSE hs[2 * i - 1]))]

RECURSIVE RefRoot(_)
RefRoot(hs) == IF Len(hs) = 1 THEN hs[1] ELSE RefRoot(RefLevel(hs))

C13_MerkleConstruction ==
    m_ran =>
        /\ m_built = None <=> m_txs = <<>>
        /\ m_txs # <<>> =>
              /\ unwrap(m_built)[2] = RefRoot(LeafHashes(m_txs))
              /\ unwrap(m_built)[1].hash = unwrap(m_built)[2]
        /\ Len(m_txs) = 1 => unwrap(m_built)[2] = hash_transaction(m_txs[1])

C13_Witness ==
    /\ m_ran
    /\ Len(m_txs) = 3
    /\ m_txs[1] # m_txs[2]
    /\ unwrap(m_built)[2] =
          Sha256Hex(Sha256Hex(hash_transaction(m_txs[1]) \o hash_transaction(m_txs[2]))
                    \o Sha256Hex(hash_transaction(m_txs[3]) \o hash_transaction(m_txs[3])))

\* C14: proof path.  generate_merkle_proof(root, k) records, in root-to-leaf order,
\* the sibling hash at every level on the path from the root to the leaf of
\* transaction k: one hash per level above the leaves, and its index field is k.
RECURSIVE RefSiblings(_, _)
RefSiblings(hs, pos) ==
    IF Len(hs) = 1 THEN <<>>
    ELSE LET sibling == IF pos % 2 = 1 THEN hs[pos]
                        ELSE IF pos + 2 <= Len(hs) THEN hs[pos + 2] ELSE hs[pos + 1]
         IN <<sibling>> \o RefSiblings(RefLevel(hs), pos \div 2)

Reverse(s) == [i \in 1..Len(s) |-> s[Len(s) + 1 - i]]

C14_ProofPath ==
    is_some(m_proof) =>
        LET k     == unwrap(m_proof)[1]
            proof == unwrap(m_proof)[2]
        IN /\ proof.index = k
           /\ Len(proof.hashes) = Len(RefSiblings(LeafHashes(m_txs), k))
           /\ proof.hashes = Reverse(RefSiblings(LeafHashes(m_txs), k))

\* C15: the header hash ignores height.  Two blocks that agree on prev_hash,
\* merkle_root, proposer and timestamp have the same hash_block value, and so the
\* same signatures, whatever their heights and transaction lists.
SameHashedFields(a, b) ==
    /\ a.header.prev_hash = b.header.prev_hash
    /\ a.header.merkle_root = b.header.merkle_root
    /\ a.header.proposer = b.header.proposer
    /\ a.header.timestamp = b.header.timestamp

C15_HashIgnoresHeight ==
    (is_some(b_out) /\ SameHashedFields(b_pair[1], b_pair[2])) =>
        /\ unwrap(b_out).hashes[1] = unwrap(b_out).hashes[2]
        /\ unwrap(b_out).sigs[1] = unwrap(b_out).sigs[2]

C15_Witness ==
    /\ is_some(b_out)
    /\ SameHashedFields(b_pair[1], b_pair[2])
    /\ b_pair[1].header.height # b_pair[2].header.height
    /\ b_pair[1].txs # b_pair[2].txs
    /\ unwrap(b_out).hashes[1] = unwrap(b_out).hashes[2]

\* C16: the proposer is a validator.  Every stored block's proposer is the id of
\* some member of the consensus engine's validator set.
ValidatorIds(c) == {c.validators[i].id : i \in 1..Len(c.validators)}

C16_ProposerIsValidator ==
    \A i \in 1..Len(ledger) : ledger[i].header.proposer \in ValidatorIds(cons)

\* C17: genesis marker.  A stored block's prev_hash is the empty string iff its
\* height is 1.
C17_GenesisMarker ==
    \A i \in 1..Len(ledger) :
        ledger[i].header.prev_hash = "" <=> ledger[i].header.height = 1

C17_Witness ==
    /\ Len(ledger) >= 2
    /\ ledger[1].header.prev_hash = ""
    /\ ledger[2].header.prev_hash # ""
    /\ ledger[2].header.height = 2

\* C18: quorum never fails in the submit workflow.  Every submit that reaches its
\* commit holds one signature per validator, appends exactly one block and replies
\* success; no reply is ever "Consensus failed".  (The ledger is empty at the start
\* and changes in no other step, so after k completed submits its length is k.)
C18_QuorumNeverFails ==
    [][/\ \A h \in Handlers : Finishes(h, "submit_commit") =>
            /\ Len(loc[h].sigs) = Len(cons.validators)
            /\ Len(loc[h].sigs) >= (2 * Len(cons.validators)) \div 3
            /\ Len(ledger') = Len(ledger) + 1
            /\ resp'[h].status = 200
       /\ Len(ledger') # Len(ledger) => \E h \in Handlers : Finishes(h, "submit_commit")
       /\ \A h \in Handlers : resp'[h].status # 500 /\ resp'[h].text # "Consensus failed"]_vars

C18_Witness ==
    \E h \in Handlers :
        /\ pc[h] = "replied"
        /\ req[h].kind = "submit"
        /\ resp[h].status = 200
        /\ Len(cons.validators) = MaxValidators
        /\ cons.threshold >= 2
        /\ Len(ledger) = 2

\* C19: single-transaction blocks.  Every stored block holds exactly one
\* transaction, its merkle_root is non-empty and is hash_transaction of that
\* transaction, and every proof a get-proof reply carries has no sibling hashes
\* and index 0.
C19_SingleTxBlocks ==
    /\ \A i \in 1..Len(ledger) :
          /\ Len(ledger[i].txs) = 1
          /\ ledger[i].header.merkle_root # ""
          /\ ledger[i].header.merkle_root = hash_transaction(ledger[i].txs[1])
    /\ \A h \in Handlers :
          is_some(resp[h].proof) => unwrap(resp[h].proof) = [hashes |-> <<>>, index |-> 0]

C19_Witness ==
    /\ Len(ledger) = 2
    /\ ledger[1].txs # ledger[2].txs
    /\ \E h \in Handlers :
          /\ pc[h] = "replied"
          /\ req[h].kind = "get_proof"
          /\ resp[h].proof = Some([hashes |-> <<>>, index |-> 0])

\* C20: liveness.  The system never deadlocks, and under fair lock scheduling
\* every started submit, get-block or get-proof handler eventually acquires the
\* lock, completes and releases it.
Started(h) == pc[h] \in {"submit_lock", "get_block_lock", "get_proof_lock"}

NoDeadlock ==
    (\E h \in DOMAIN pc : pc[h] \notin {"idle", "replied"}) =>
        ENABLED (\E h \in DOMAIN pc : LockStep(h) \/ BodyStep(h))

====
